---- MODULE Spec2Model ----
(***************************************************************************)
(* The Messages API response body of clust (messages_response_body.rs):   *)
(* the struct MessagesResponseBody, the enum MessageObjectType, their      *)
(* serde encodings to JSON text and back (with the content blocks a body   *)
(* holds), and their Display renderings.                                   *)
(*                                                                         *)
(* JSON text is a sequence of tokens (punctuation, string and number       *)
(* literals, the words null/true/false, and the whitespace the pretty      *)
(* writer emits).  A JSON value is a record [t, s, n, m]: t the kind, s    *)
(* the string, n the number, m the members (of an object: key and value;   *)
(* of an array: the values, under the key "").  Text is decoded as it is   *)
(* read: a value of the wrong type is reported where it stands, before     *)
(* any malformed text that follows it.                                     *)
(***************************************************************************)
EXTENDS Integers, Sequences, FiniteSets, TLC

VARIABLES value, text, source, result, op

vars == <<value, text, source, result, op>>

(* ------------------------------ bounds -------------------------------- *)

\* Usage counts range over 0..MaxCount.
MaxCount == 2

(* ---------------------------- JSON values ----------------------------- *)

JNull == [t |-> "null", s |-> "", n |-> 0, m |-> <<>>]

JTrue == [t |-> "bool", s |-> "true", n |-> 0, m |-> <<>>]

JFalse == [t |-> "bool", s |-> "false", n |-> 0, m |-> <<>>]

JStr(str) == [t |-> "str", s |-> str, n |-> 0, m |-> <<>>]

JNum(num) == [t |-> "num", s |-> "", n |-> num, m |-> <<>>]

JObj(members) == [t |-> "obj", s |-> "", n |-> 0, m |-> members]

JArr(items) == [t |-> "arr", s |-> "", n |-> 0, m |-> items]

KV(k, v) == [key |-> k, val |-> v]

Item(v) == [key |-> "", val |-> v]

(* ---------------------------- JSON tokens ----------------------------- *)

Punct(c) == [k |-> "punct", s |-> c, n |-> 0]

StrTok(str) == [k |-> "str", s |-> str, n |-> 0]

NumTok(num) == [k |-> "num", s |-> "", n |-> num]

LitTok(word) == [k |-> "lit", s |-> word, n |-> 0]

Newline == [k |-> "ws", s |-> "\n", n |-> 0]

Space == [k |-> "ws", s |-> " ", n |-> 0]

\* One level of the pretty writer's indentation: two spaces.
IndentUnit == [k |-> "ws", s |-> "  ", n |-> 0]

Indent(level) == [i \in 1..level |-> IndentUnit]

(* ------------------- serde_json's writer (both formatters) ------------ *)

RECURSIVE write(_, _, _)
RECURSIVE write_members(_, _, _, _, _)

\* Members i.. of an object (is_obj) or an array, each after its separator.
write_members(m, i, is_obj, pretty, level) ==
  IF i > Len(m) THEN <<>>
  ELSE (IF i > 1 THEN <<Punct(",")>> ELSE <<>>)
       \o (IF pretty THEN <<Newline>> \o Indent(level + 1) ELSE <<>>)
       \o (IF is_obj
           THEN <<StrTok(m[i].key), Punct(":")>>
                \o (IF pretty THEN <<Space>> ELSE <<>>)
           ELSE <<>>)
       \o write(m[i].val, pretty, level + 1)
       \o write_members(m, i + 1, is_obj, pretty, level)

\* The text of JSON value j at nesting depth level.
write(j, pretty, level) ==
  CASE j.t = "null" -> <<LitTok("null")>>
    [] j.t = "bool" -> <<LitTok(j.s)>>
    [] j.t = "str" -> <<StrTok(j.s)>>
    [] j.t = "num" -> <<NumTok(j.n)>>
    [] OTHER ->
         LET open == IF j.t = "obj" THEN "{" ELSE "["
             close == IF j.t = "obj" THEN "}" ELSE "]"
         IN <<Punct(open)>>
            \o write_members(j.m, 1, j.t = "obj", pretty, level)
            \o (IF pretty /\ j.m # <<>>
                THEN <<Newline>> \o Indent(level) ELSE <<>>)
            \o <<Punct(close)>>

(* -------------------------- serde_json's reader ----------------------- *)

\* The first position at or after i that holds no whitespace.
RECURSIVE skip_ws(_, _)
skip_ws(toks, i) ==
  IF i <= Len(toks) /\ toks[i].k = "ws" THEN skip_ws(toks, i + 1) ELSE i

\* The place where the text stops being JSON: the end of the input, or a
\* character that cannot stand there.
JBad == [t |-> "bad", s |-> "", n |-> 0, m |-> <<>>]

Parsed(v, next) == [ok |-> TRUE, v |-> v, next |-> next]

\* The reader stopped inside v: v holds what was read before that place,
\* in document order, and JBad at the place itself.
Stopped(v) == [ok |-> FALSE, v |-> v, next |-> 0]

IsPunct(toks, i, c) == i <= Len(toks) /\ toks[i] = Punct(c)

RECURSIVE parse_value(_, _)
RECURSIVE parse_members(_, _, _, _)

\* The members of an object or array after its opening bracket; acc holds
\* those read so far, and i stands at a member or at the closing bracket.
parse_members(toks, i0, is_obj, acc) ==
  LET close == IF is_obj THEN "}" ELSE "]"
      i == skip_ws(toks, i0)
  IN IF acc = <<>> /\ IsPunct(toks, i, close)
     THEN Parsed(acc, i + 1)
     ELSE LET has_key == i <= Len(toks) /\ toks[i].k = "str"
              key == IF is_obj /\ has_key THEN toks[i].s ELSE ""
              c == skip_ws(toks, i + 1)
              at == IF is_obj THEN skip_ws(toks, c + 1) ELSE i
          IN IF is_obj /\ ~(has_key /\ IsPunct(toks, c, ":"))
             THEN Stopped(Append(acc, KV(key, JBad)))
             ELSE LET r == parse_value(toks, at)
                      acc2 == Append(acc, KV(key, r.v))
                      j == skip_ws(toks, r.next)
                  IN IF ~r.ok THEN Stopped(acc2)
                     ELSE IF IsPunct(toks, j, ",")
                          THEN parse_members(toks, j + 1, is_obj, acc2)
                          ELSE IF IsPunct(toks, j, close)
                               THEN Parsed(acc2, j + 1)
                               ELSE Stopped(Append(acc2, KV("", JBad)))

\* The JSON value that starts at position i0 (after whitespace).
parse_value(toks, i0) ==
  LET i == skip_ws(toks, i0)
  IN IF i > Len(toks) THEN Stopped(JBad)
     ELSE LET tok == toks[i]
          IN CASE tok.k = "str" -> Parsed(JStr(tok.s), i + 1)
               [] tok.k = "num" -> Parsed(JNum(tok.n), i + 1)
               [] tok.k = "lit" ->
                    IF tok.s = "null" THEN Parsed(JNull, i + 1)
                    ELSE IF tok.s = "true" THEN Parsed(JTrue, i + 1)
                    ELSE IF tok.s = "false" THEN Parsed(JFalse, i + 1)
                    ELSE Stopped(JBad)
               [] tok.k = "punct" /\ tok.s \in {"{", "["} ->
                    LET r == parse_members(toks, i + 1, tok.s = "{", <<>>)
                        v == IF tok.s = "{" THEN JObj(r.v) ELSE JArr(r.v)
                    IN IF r.ok THEN Parsed(v, r.next) ELSE Stopped(v)
               [] OTHER -> Stopped(JBad)

\* JSON value j was read to its end: the reader stopped nowhere inside it.
RECURSIVE well_formed(_)
well_formed(j) ==
  j.t # "bad" /\ \A i \in 1..Len(j.m) : well_formed(j.m[i].val)

\* One whole document: a value, then nothing but whitespace.  ok says the
\* text is that; v is the value as far as it was read.
parse_document(toks) ==
  LET r == parse_value(toks, 1)
  IN [ok |-> r.ok /\ skip_ws(toks, r.next) = Len(toks) + 1,
      v |-> r.v, next |-> r.next]

(* ------------------------------ results ------------------------------- *)

None == <<>>

Some(x) == <<x>>

Ok(x) == [ok |-> TRUE, v |-> x, err |-> "", at |-> ""]

\* A decoding error, returned as a value: its kind and the field, variant or
\* type it names.
Err(kind, what) == [ok |-> FALSE, v |-> <<>>, err |-> kind, at |-> what]

(* ------------------------------ the types ----------------------------- *)

\* A field of a struct: its Rust name, the key Serialize writes, the key
\* Deserialize reads, its type, and whether it is an Option of that type.
Field(name, ser, de, ty, opt) ==
  [name |-> name, ser |-> ser, de |-> de, ty |-> ty, opt |-> opt]

\* The same declaration with rename = "type" applied to Serialize only.
MessagesResponseBody_fields_de_unrenamed ==
  << Field("id", "id", "id", "String", FALSE),
     Field("_type", "type", "_type", "MessageObjectType", FALSE),
     Field("role", "role", "role", "Role", FALSE),
     Field("content", "content", "content", "Content", FALSE),
     Field("model", "model", "model", "ClaudeModel", FALSE),
     Field("stop_reason", "stop_reason", "stop_reason", "StopReason", TRUE),
     Field("stop_sequence", "stop_sequence", "stop_sequence",
           "StopSequence", TRUE),
     Field("usage", "usage", "usage", "Usage", FALSE) >>

\* The same declaration without the rename attribute.
MessagesResponseBody_fields_unrenamed ==
  << Field("id", "id", "id", "String", FALSE),
     Field("_type", "_type", "_type", "MessageObjectType", FALSE),
     Field("role", "role", "role", "Role", FALSE),
     Field("content", "content", "content", "Content", FALSE),
     Field("model", "model", "model", "ClaudeModel", FALSE),
     Field("stop_reason", "stop_reason", "stop_reason", "StopReason", TRUE),
     Field("stop_sequence", "stop_sequence", "stop_sequence",
           "StopSequence", TRUE),
     Field("usage", "usage", "usage", "Usage", FALSE) >>

\* struct MessagesResponseBody: eight fields in declaration order; _type is
\* renamed to "type" for both directions.
MessagesResponseBody_fields ==
  << Field("id", "id", "id", "String", FALSE),
     Field("_type", "type", "type", "MessageObjectType", FALSE),
     Field("role", "role", "role", "Role", FALSE),
     Field("content", "content", "content", "Content", FALSE),
     Field("model", "model", "model", "ClaudeModel", FALSE),
     Field("stop_reason", "stop_reason", "stop_reason", "StopReason", TRUE),
     Field("stop_sequence", "stop_sequence", "stop_sequence",
           "StopSequence", TRUE),
     Field("usage", "usage", "usage", "Usage", FALSE) >>

Usage_fields ==
  << Field("input_tokens", "input_tokens", "input_tokens", "u32", FALSE),
     Field("output_tokens", "output_tokens", "output_tokens", "u32", FALSE) >>

\* The three kinds of content block, each an object with its "type" and
\* its payload.
TextContentBlock_fields ==
  << Field("_type", "type", "type", "ContentType", FALSE),
     Field("text", "text", "text", "String", FALSE) >>

ImageContentSource_fields ==
  << Field("_type", "type", "type", "ImageSourceType", FALSE),
     Field("media_type", "media_type", "media_type", "ImageMediaType",
           FALSE),
     Field("data", "data", "data", "String", FALSE) >>

ImageContentBlock_fields ==
  << Field("_type", "type", "type", "ContentType", FALSE),
     Field("source", "source", "source", "ImageContentSource", FALSE) >>

TextDeltaContentBlock_fields ==
  << Field("_type", "type", "type", "ContentType", FALSE),
     Field("text", "text", "text", "String", FALSE) >>

\* A table that also accepts the variant's Rust name on the wire.
MessageObjectType_variants_lenient ==
  << <<"Message", "message">>, <<"Message", "Message">> >>

\* A table that writes the variant's Rust name.
MessageObjectType_variants_capitalised == << <<"Message", "Message">> >>

\* impl_enum_string_serialization!(MessageObjectType, Message => "message"):
\* each variant with its wire string.
MessageObjectType_variants == << <<"Message", "message">> >>

Role_variants == << <<"User", "user">>, <<"Assistant", "assistant">> >>

ClaudeModel_variants ==
  << <<"Claude3Opus20240229", "claude-3-opus-20240229">>,
     <<"Claude3Sonnet20240229", "claude-3-sonnet-20240229">> >>

StopReason_variants ==
  << <<"EndTurn", "end_turn">>, <<"MaxTokens", "max_tokens">>,
     <<"StopSequence", "stop_sequence">> >>

\* The "type" of a content block, one per kind of block.
ContentType_variants ==
  << <<"Text", "text">>, <<"Image", "image">>,
     <<"TextDelta", "text_delta">> >>

ImageSourceType_variants == << <<"Base64", "base64">> >>

ImageMediaType_variants ==
  << <<"Jpeg", "image/jpeg">>, <<"Png", "image/png">>,
     <<"Gif", "image/gif">>, <<"Webp", "image/webp">> >>

\* The block struct that each ContentType selects in the union ContentBlock.
BlockStruct(variant) ==
  CASE variant = "Text" -> "TextContentBlock"
    [] variant = "Image" -> "ImageContentBlock"
    [] variant = "TextDelta" -> "TextDeltaContentBlock"

StructTypes ==
  {"MessagesResponseBody", "Usage", "TextContentBlock", "ImageContentBlock",
   "ImageContentSource", "TextDeltaContentBlock"}

EnumTypes ==
  {"MessageObjectType", "Role", "ClaudeModel", "StopReason", "ContentType",
   "ImageSourceType", "ImageMediaType"}

Fields(ty) ==
  CASE ty = "MessagesResponseBody" -> MessagesResponseBody_fields
    [] ty = "Usage" -> Usage_fields
    [] ty = "TextContentBlock" -> TextContentBlock_fields
    [] ty = "ImageContentBlock" -> ImageContentBlock_fields
    [] ty = "ImageContentSource" -> ImageContentSource_fields
    [] ty = "TextDeltaContentBlock" -> TextDeltaContentBlock_fields

Variants(ty) ==
  CASE ty = "MessageObjectType" -> MessageObjectType_variants
    [] ty = "Role" -> Role_variants
    [] ty = "ClaudeModel" -> ClaudeModel_variants
    [] ty = "StopReason" -> StopReason_variants
    [] ty = "ContentType" -> ContentType_variants
    [] ty = "ImageSourceType" -> ImageSourceType_variants
    [] ty = "ImageMediaType" -> ImageMediaType_variants

(* ------------------------------ Display ------------------------------- *)

\* A Display that writes the variant's Rust name.
MessageObjectType_fmt_capitalised(self) ==
  CASE self = "Message" -> "Message"

\* impl Display for MessageObjectType.
MessageObjectType_fmt(self) ==
  CASE self = "Message" -> "message"

\* impl Default for MessageObjectType.
MessageObjectType_default == "Message"

(* ----------------------------- Serialize ------------------------------ *)

\* The first row of an enum's table for variant v: the match arm taken.
RECURSIVE variant_str(_, _, _)
variant_str(table, i, v) ==
  IF table[i][1] = v THEN table[i][2] ELSE variant_str(table, i + 1, v)

\* A derive that skips an Option field holding None.
skip_serializing_none(f, x) == f.opt /\ x = None

\* Whether Serialize leaves field f (holding x) out: the struct carries no
\* skip_serializing_if, so never.
skip_serializing(f, x) == FALSE

RECURSIVE serialize(_, _)
RECURSIVE serialize_fields(_, _, _)
RECURSIVE serialize_seq(_, _, _)

\* An Option writes null for None and the inner value for Some.
serialize_field(f, x) ==
  IF f.opt
  THEN IF x = None THEN JNull ELSE serialize(f.ty, x[1])
  ELSE serialize(f.ty, x)

\* The members Serialize writes for fields i.. of struct value v.
serialize_fields(fields, i, v) ==
  IF i > Len(fields) THEN <<>>
  ELSE LET f == fields[i]
       IN (IF skip_serializing(f, v[f.name]) THEN <<>>
           ELSE <<KV(f.ser, serialize_field(f, v[f.name]))>>)
          \o serialize_fields(fields, i + 1, v)

\* The derived Serialize of a struct: one object, a member per field.
serialize_struct(ty, v) == JObj(serialize_fields(Fields(ty), 1, v))

\* Serialize of a string enum: the variant's wire string.
serialize_enum(ty, v) == JStr(variant_str(Variants(ty), 1, v))

serialize_seq(ty, i, xs) ==
  IF i > Len(xs) THEN <<>>
  ELSE <<Item(serialize(ty, xs[i]))>> \o serialize_seq(ty, i + 1, xs)

\* A block of the union ContentBlock is written as the object of the
\* block struct it holds, "type" first.
serialize_ContentBlock(v) == serialize_struct(BlockStruct(v.kind), v.block)

\* Content is written untagged: a string, or an array of blocks.
serialize_Content(v) ==
  IF v.kind = "SingleText" THEN JStr(v.text)
  ELSE JArr(serialize_seq("ContentBlock", 1, v.blocks))

\* The JSON value Serialize produces for value v of type ty.
serialize(ty, v) ==
  CASE ty \in {"String", "StopSequence"} -> JStr(v)
    [] ty = "u32" -> JNum(v)
    [] ty \in EnumTypes -> serialize_enum(ty, v)
    [] ty = "ContentBlock" -> serialize_ContentBlock(v)
    [] ty = "Content" -> serialize_Content(v)
    [] ty \in StructTypes -> serialize_struct(ty, v)

\* serde_json::to_string: the compact text.
to_string(ty, v) == write(serialize(ty, v), FALSE, 0)

\* serde_json::to_string_pretty: the indented text.
to_string_pretty(ty, v) == write(serialize(ty, v), TRUE, 0)

(* ------------------------------ Default ------------------------------- *)

Usage_default == [input_tokens |-> 0, output_tokens |-> 0]

Content_default == [kind |-> "SingleText", text |-> "", blocks |-> <<>>]

Role_default == "User"

ClaudeModel_default == "Claude3Sonnet20240229"

\* derive(Default) for MessagesResponseBody: every field's own default.
MessagesResponseBody_default ==
  [id |-> "", _type |-> MessageObjectType_default, role |-> Role_default,
   content |-> Content_default, model |-> ClaudeModel_default,
   stop_reason |-> None, stop_sequence |-> None, usage |-> Usage_default]

(* ---------------------------- Deserialize ----------------------------- *)

\* A derive with #[serde(default)]: a missing key takes the field's default.
missing_field_default(f) ==
  IF f.opt THEN Ok(None)
  ELSE IF f.name \in DOMAIN MessagesResponseBody_default
  THEN Ok(MessagesResponseBody_default[f.name])
  ELSE Err("missing field", f.de)

\* What Deserialize does for a field whose key the object lacks: None for
\* an Option, an error for every other field.
missing_field(f) ==
  IF f.opt THEN Ok(None) ELSE Err("missing field", f.de)

\* The position of the field read from key, or 0 for a key the struct does
\* not declare.
RECURSIVE field_index(_, _, _)
field_index(fields, i, key) ==
  IF i > Len(fields) THEN 0
  ELSE IF fields[i].de = key THEN i ELSE field_index(fields, i + 1, key)

\* The first row of an enum's table whose wire string is str, or 0.
RECURSIVE variant_index(_, _, _)
variant_index(table, i, str) ==
  IF i > Len(table) THEN 0
  ELSE IF table[i][2] = str THEN i ELSE variant_index(table, i + 1, str)

RECURSIVE deserialize(_, _)
RECURSIVE visit_map(_, _, _, _)
RECURSIVE visit_seq(_, _, _, _)
RECURSIVE finish(_, _, _)
RECURSIVE deserialize_seq(_, _, _, _)

deserialize_field(f, j) ==
  IF f.opt
  THEN IF j.t = "null" THEN Ok(None)
       ELSE LET r == deserialize(f.ty, j)
            IN IF r.ok THEN Ok(Some(r.v)) ELSE r
  ELSE deserialize(f.ty, j)

\* After the last member: fields i.. that were never read take what
\* missing_field gives; then the struct value is built.
finish(fields, i, acc) ==
  IF i > Len(fields)
  THEN Ok([name \in {fields[k].name : k \in 1..Len(fields)} |->
             acc[CHOOSE k \in 1..Len(fields) : fields[k].name = name][1]])
  ELSE IF acc[i] # None THEN finish(fields, i + 1, acc)
  ELSE LET r == missing_field(fields[i])
       IN IF r.ok THEN finish(fields, i + 1, [acc EXCEPT ![i] = Some(r.v)])
          ELSE r

\* The derived visitor over an object's members, in document order.  The
\* value under an undeclared key is read to its end and dropped.
visit_map(fields, members, i, acc) ==
  IF i > Len(members) THEN finish(fields, 1, acc)
  ELSE LET k == field_index(fields, 1, members[i].key)
       IN IF k = 0
          THEN IF well_formed(members[i].val)
               THEN visit_map(fields, members, i + 1, acc)
               ELSE Err("syntax", "")
          ELSE IF acc[k] # None THEN Err("duplicate field", fields[k].de)
          ELSE LET r == deserialize_field(fields[k], members[i].val)
               IN IF r.ok
                  THEN visit_map(fields, members, i + 1,
                                 [acc EXCEPT ![k] = Some(r.v)])
                  ELSE r

\* The derived visitor over an array's items: the fields by position;
\* after the last field the array must close.
visit_seq(fields, items, i, acc) ==
  IF i > Len(fields)
  THEN IF Len(items) > Len(fields) THEN Err("syntax", "")
       ELSE finish(fields, 1, acc)
  ELSE IF i > Len(items) THEN Err("invalid length", fields[i].de)
  ELSE LET r == deserialize_field(fields[i], items[i].val)
       IN IF r.ok
          THEN visit_seq(fields, items, i + 1, [acc EXCEPT ![i] = Some(r.v)])
          ELSE r

deserialize_seq(ty, items, i, acc) ==
  IF i > Len(items) THEN Ok(acc)
  ELSE LET r == deserialize(ty, items[i].val)
       IN IF r.ok THEN deserialize_seq(ty, items, i + 1, Append(acc, r.v))
          ELSE r

\* Deserialize of a string enum: the variant whose wire string the JSON
\* string is; any other string, and anything but a string, is an error.
deserialize_enum(ty, j) ==
  IF j.t # "str" THEN Err("invalid type", ty)
  ELSE LET k == variant_index(Variants(ty), 1, j.s)
       IN IF k = 0 THEN Err("unknown variant", j.s)
          ELSE Ok(Variants(ty)[k][1])

\* The derived Deserialize of a struct: from an object by key, from an
\* array by position.
deserialize_struct(ty, j) ==
  LET none == [k \in 1..Len(Fields(ty)) |-> None]
  IN IF j.t = "obj" THEN visit_map(Fields(ty), j.m, 1, none)
     ELSE IF j.t = "arr" THEN visit_seq(Fields(ty), j.m, 1, none)
     ELSE Err("invalid type", ty)

\* A block of the union ContentBlock is read by its "type": the string
\* under "type" selects the kind, and the object is read as that kind's
\* block struct.  An object without "type", or with one that names no
\* kind, is an error.
deserialize_ContentBlock(j) ==
  IF j.t # "obj" THEN Err("invalid type", "ContentBlock")
  ELSE LET at == {i \in 1..Len(j.m) : j.m[i].key = "type"}
       IN IF at = {} THEN Err("missing field", "type")
          ELSE LET first == CHOOSE i \in at : \A k \in at : i <= k
                   t == deserialize("ContentType", j.m[first].val)
               IN IF ~t.ok THEN t
                  ELSE LET r == deserialize_struct(BlockStruct(t.v), j)
                       IN IF r.ok
                          THEN Ok([kind |-> t.v, block |-> r.v])
                          ELSE r

\* Content is read untagged: the value is read to its end, then tried as
\* a string, else as an array of blocks.
deserialize_Content(j) ==
  IF ~well_formed(j) THEN Err("syntax", "")
  ELSE IF j.t = "str"
  THEN Ok([kind |-> "SingleText", text |-> j.s, blocks |-> <<>>])
  ELSE IF j.t = "arr"
  THEN LET r == deserialize_seq("ContentBlock", j.m, 1, <<>>)
       IN IF r.ok
          THEN Ok([kind |-> "MultipleBlocks", text |-> "", blocks |-> r.v])
          ELSE Err("data did not match any variant", "Content")
  ELSE Err("data did not match any variant", "Content")

\* The value of type ty that Deserialize reads from JSON value j, or the
\* decoding error: "syntax" where the text stops being JSON, the other
\* kinds where well-formed text holds the wrong data.  Every number the
\* model draws is far below 2^32, so a u32 rejects only the negative ones.
deserialize(ty, j) ==
  IF j.t = "bad" THEN Err("syntax", "")
  ELSE CASE ty \in {"String", "StopSequence"} ->
              IF j.t = "str" THEN Ok(j.s) ELSE Err("invalid type", ty)
         [] ty = "u32" ->
              IF j.t # "num" THEN Err("invalid type", ty)
              ELSE IF j.n < 0 THEN Err("invalid value", ty)
              ELSE Ok(j.n)
         [] ty \in EnumTypes -> deserialize_enum(ty, j)
         [] ty = "ContentBlock" -> deserialize_ContentBlock(j)
         [] ty = "Content" -> deserialize_Content(j)
         [] ty \in StructTypes -> deserialize_struct(ty, j)

\* serde_json::from_str::<ty>: the text read as one value of type ty, and
\* only then checked to hold nothing more.
from_str(ty, toks) ==
  LET p == parse_document(toks)
      r == deserialize(ty, p.v)
  IN IF ~r.ok THEN r
     ELSE IF ~p.ok THEN Err("syntax", "")
     ELSE r

(* ------------------------- Display of the struct ---------------------- *)

RawTok(str) == [k |-> "raw", s |-> str, n |-> 0]

\* impl_display_for_serialize!(MessagesResponseBody): the pretty JSON text.
MessagesResponseBody_fmt(self) ==
  to_string_pretty("MessagesResponseBody", self)

\* value.to_string(): the text Display writes for a value of type ty.
fmt(ty, v) ==
  IF ty = "MessagesResponseBody" THEN MessagesResponseBody_fmt(v)
  ELSE <<RawTok(MessageObjectType_fmt(v))>>

(* ------------------------------- inputs ------------------------------- *)

Val(ty, v) == [ty |-> ty, v |-> v]

\* The value a text was written from, and by which call.
Written(by, val) == [by |-> by, ty |-> val.ty, v |-> val.v]

MessageObjectTypes == {"Message"}

Roles == {"User", "Assistant"}

ClaudeModels == {"Claude3Opus20240229", "Claude3Sonnet20240229"}

StopReasons == {"EndTurn", "MaxTokens", "StopSequence"}

Ids == {"", "id"}

\* The blocks the constructors build: each kind with its own "type".
TextBlock(str) == [kind |-> "Text", block |-> [_type |-> "Text", text |-> str]]

ImageBlock(media, data) ==
  [kind |-> "Image",
   block |-> [_type |-> "Image",
              source |-> [_type |-> "Base64", media_type |-> media,
                          data |-> data]]]

TextDeltaBlock(str) ==
  [kind |-> "TextDelta", block |-> [_type |-> "TextDelta", text |-> str]]

Blocks(bs) == [kind |-> "MultipleBlocks", text |-> "", blocks |-> bs]

\* Content as one string, and as blocks of every kind, alone and mixed; a
\* text block and a text-delta block with the same text differ only in
\* their "type".
Contents ==
  { [kind |-> "SingleText", text |-> "content", blocks |-> <<>>],
    Blocks(<<>>),
    Blocks(<<TextBlock("content")>>),
    Blocks(<<TextDeltaBlock("content")>>),
    Blocks(<<ImageBlock("Png", "data")>>),
    Blocks(<<TextDeltaBlock("content"), ImageBlock("Jpeg", ""),
             TextBlock("content")>>) }

Usages == [input_tokens : 0..MaxCount, output_tokens : 0..MaxCount]

\* Every MessagesResponseBody a struct literal can build from the inputs.
Bodies ==
  [id : Ids, _type : MessageObjectTypes, role : Roles, content : Contents,
   model : ClaudeModels,
   stop_reason : {None} \cup {Some(r) : r \in StopReasons},
   stop_sequence : {None, Some("stop_sequence")}, usage : Usages]

\* The value the tests build.
TestBody ==
  [id |-> "id", _type |-> "Message", role |-> "Assistant",
   content |-> [kind |-> "SingleText", text |-> "content", blocks |-> <<>>],
   model |-> "Claude3Sonnet20240229", stop_reason |-> Some("EndTurn"),
   stop_sequence |-> Some("stop_sequence"),
   usage |-> [input_tokens |-> 1, output_tokens |-> 2]]

Without(m, key) == SelectSeq(m, LAMBDA e : e.key # key)

With(m, key, val) ==
  [i \in 1..Len(m) |-> IF m[i].key = key THEN KV(key, val) ELSE m[i]]

Reverse(m) == [i \in 1..Len(m) |-> m[Len(m) + 1 - i]]

Values(m) == [i \in 1..Len(m) |-> Item(m[i].val)]

Get(m, key) == (CHOOSE i \in 1..Len(m) : m[i].key = key)

\* The document tests::deserialize reads.
TestJson ==
  << KV("id", JStr("id")), KV("type", JStr("message")),
     KV("role", JStr("assistant")), KV("content", JStr("content")),
     KV("model", JStr("claude-3-sonnet-20240229")),
     KV("stop_reason", JStr("end_turn")),
     KV("stop_sequence", JStr("stop_sequence")),
     KV("usage", JObj(<<KV("input_tokens", JNum(1)),
                        KV("output_tokens", JNum(2))>>)) >>

TextBlockJson == JObj(<<KV("type", JStr("text")), KV("text", JStr("content"))>>)

TextDeltaBlockJson ==
  JObj(<<KV("type", JStr("text_delta")), KV("text", JStr("content"))>>)

ImageSourceJson ==
  <<KV("type", JStr("base64")), KV("media_type", JStr("image/png")),
    KV("data", JStr("data"))>>

ImageBlockJson ==
  JObj(<<KV("type", JStr("image")), KV("source", JObj(ImageSourceJson))>>)

\* Content blocks as they may arrive: the three kinds, right and with the
\* "type" of another kind, of no kind, of no string, or absent; with the
\* payload missing, reordered or malformed; with an undeclared key.
BlockValues ==
  { TextBlockJson, TextDeltaBlockJson, ImageBlockJson,
    JObj(<<KV("text", JStr("content")), KV("type", JStr("text_delta"))>>),
    JObj(<<KV("type", JStr("image")), KV("text", JStr("content"))>>),
    JObj(<<KV("type", JStr("text")), KV("source", JObj(ImageSourceJson))>>),
    JObj(<<KV("type", JStr("audio")), KV("text", JStr("content"))>>),
    JObj(<<KV("type", JStr("Text")), KV("text", JStr("content"))>>),
    JObj(<<KV("type", JNum(1)), KV("text", JStr("content"))>>),
    JObj(<<KV("text", JStr("content"))>>),
    JObj(<<KV("type", JStr("text_delta"))>>),
    JObj(<<KV("type", JStr("image")),
           KV("source", JObj(With(ImageSourceJson, "media_type",
                                  JStr("image/bmp"))))>>),
    JObj(<<KV("type", JStr("image")),
           KV("source", JObj(Without(ImageSourceJson, "data")))>>),
    JObj(<<KV("type", JStr("text")), KV("text", JStr("content")),
           KV("extra", JNum(1))>>),
    JStr("content") }

\* The same message as streaming mode's message_start carries it: content
\* as blocks, nothing stopped yet.
StartJson ==
  With(With(With(TestJson, "content", JArr(<<Item(TextBlockJson)>>)),
            "stop_reason", JNull),
       "stop_sequence", JNull)

BodyKeys == {TestJson[i].key : i \in 1..Len(TestJson)}

\* Values a key may wrongly hold (some are right for some keys).
OddValues ==
  {JNum(7), JNum(-1), JNull, JTrue, JFalse, JStr("message"),
   JStr("Message"), JStr("MESSAGE"), JObj(<<>>), JArr(<<>>)}

\* JSON documents that arrive from outside: two well-formed messages,
\* and each with a key dropped, a value replaced, a key added or repeated,
\* the keys reordered, or the object written as an array; and the values a
\* bare MessageObjectType may arrive as.
ReceivedValues ==
  LET base == {TestJson, StartJson}
      usage(m) == m[Get(m, "usage")].val.m
  IN UNION {
       {JObj(m) : m \in base},
       {JObj(Without(m, k)) : m \in base, k \in BodyKeys},
       {JObj(With(m, k, w)) : m \in base, k \in BodyKeys, w \in OddValues},
       {JObj(Append(m, KV("extra", w))) : m \in base, w \in {JNum(1), JFalse}},
       {JObj(<<KV("extra", JObj(<<>>))>> \o m) : m \in base},
       {JObj(Append(m, KV("id", JStr("id")))) : m \in base},
       {JObj(Reverse(m)) : m \in base},
       {JObj(With(m, "content", JArr(<<Item(b)>>)))
          : m \in base, b \in BlockValues},
       {JObj(With(TestJson, "content",
                  JArr(<<Item(TextDeltaBlockJson), Item(ImageBlockJson),
                         Item(TextBlockJson)>>)))},
       {JArr(Values(m)) : m \in base},
       {JArr(Values(SubSeq(m, 1, 7))) : m \in base},
       {JArr(Append(Values(m), Item(JNull))) : m \in base},
       {JObj(With(m, "usage", JObj(Without(usage(m), "output_tokens"))))
          : m \in base},
       {JObj(With(m, "usage",
                  JObj(With(usage(m), "input_tokens", JNum(-1)))))
          : m \in base},
       OddValues }

\* Texts that are not JSON: cut short, or with a character out of place,
\* after right data, after wrong data, and under an undeclared key.
BrokenDocs ==
  {SubSeq(write(JObj(TestJson), FALSE, 0), 1, 12),
   write(JObj(TestJson), FALSE, 0) \o <<Punct("}")>>,
   SubSeq(write(JObj(With(TestJson, "id", JNum(7))), FALSE, 0), 1, 4),
   SubSeq(write(JObj(<<KV("id", JStr("id")), KV("id", JStr("id"))>>),
                FALSE, 0), 1, 6),
   SubSeq(write(JObj(<<KV("extra", JArr(<<Item(JNum(1))>>))>> \o TestJson),
                FALSE, 0), 1, 5),
   SubSeq(write(JObj(With(TestJson, "content", JArr(<<Item(JNum(1))>>))),
                FALSE, 0), 1, 17),
   <<NumTok(7), Punct("}")>>,
   <<StrTok("message"), Punct("}")>>,
   <<Punct("["), NumTok(1), Punct(","), Punct("]")>>,
   <<Punct("["), NumTok(1), Space, NumTok(2), Punct("]")>>,
   <<Punct("["), NumTok(1)>>,
   <<Punct("["), StrTok("id"), Punct(","), Punct("]")>>,
   <<RawTok("message")>>,
   <<>>}

ReceivedDocs ==
  {write(j, pretty, 0) : j \in ReceivedValues, pretty \in BOOLEAN}
  \cup BrokenDocs

(* ----------------------------- the program ---------------------------- *)

DecodeTypes == {"MessagesResponseBody", "MessageObjectType"}

Fresh == op = "init"

\* A struct literal, or the enum's variant, written by hand.
New(ty, x) ==
  /\ Fresh
  /\ value' = Some(Val(ty, x))
  /\ op' = "new"
  /\ UNCHANGED <<text, source, result>>

\* MessagesResponseBody::default() and MessageObjectType::default().
Default(ty) ==
  /\ Fresh
  /\ value' = Some(Val(ty, IF ty = "MessagesResponseBody"
                           THEN MessagesResponseBody_default
                           ELSE MessageObjectType_default))
  /\ op' = "default"
  /\ UNCHANGED <<text, source, result>>

\* A JSON document arrives.
Receive(doc) ==
  /\ Fresh
  /\ text' = doc
  /\ op' = "receive"
  /\ UNCHANGED <<value, source, result>>

\* serde_json::to_string(&value).
Encode ==
  /\ value # None
  /\ text' = to_string(value[1].ty, value[1].v)
  /\ source' = Some(Written("to_string", value[1]))
  /\ result' = None
  /\ op' = "to_string"
  /\ UNCHANGED <<value>>

\* value.to_string(), through Display.
Display ==
  /\ value # None
  /\ text' = fmt(value[1].ty, value[1].v)
  /\ source' = Some(Written("fmt", value[1]))
  /\ result' = None
  /\ op' = "fmt"
  /\ UNCHANGED <<value>>

\* serde_json::from_str::<ty>(text); a value it yields is the one in hand.
Decode(ty) ==
  /\ op \in {"receive", "to_string", "fmt"}
  /\ LET r == from_str(ty, text)
     IN /\ result' = Some(Val(ty, r))
        /\ value' = IF r.ok THEN Some(Val(ty, r.v)) ELSE value
  /\ op' = "from_str"
  /\ UNCHANGED <<text, source>>

(* --------------------------- specifications --------------------------- *)

Init ==
  /\ value = None
  /\ text = <<>>
  /\ source = None
  /\ result = None
  /\ op = "init"

Next ==
  \/ \E x \in Bodies : New("MessagesResponseBody", x)
  \/ \E x \in MessageObjectTypes : New("MessageObjectType", x)
  \/ \E ty \in DecodeTypes : Default(ty)
  \/ \E doc \in ReceivedDocs : Receive(doc)
  \/ Encode
  \/ Display
  \/ \E ty \in DecodeTypes : Decode(ty)

Spec == Init /\ [][Next]_vars

(* ------------------------- the tests' expectations -------------------- *)

\* The text tests::serialize expects for TestBody.
TestSerialized ==
  << Punct("{"), StrTok("id"), Punct(":"), StrTok("id"), Punct(","),
     StrTok("type"), Punct(":"), StrTok("message"), Punct(","),
     StrTok("role"), Punct(":"), StrTok("assistant"), Punct(","),
     StrTok("content"), Punct(":"), StrTok("content"), Punct(","),
     StrTok("model"), Punct(":"), StrTok("claude-3-sonnet-20240229"),
     Punct(","),
     StrTok("stop_reason"), Punct(":"), StrTok("end_turn"), Punct(","),
     StrTok("stop_sequence"), Punct(":"), StrTok("stop_sequence"),
     Punct(","),
     StrTok("usage"), Punct(":"), Punct("{"),
     StrTok("input_tokens"), Punct(":"), NumTok(1), Punct(","),
     StrTok("output_tokens"), Punct(":"), NumTok(2), Punct("}"),
     Punct("}") >>

\* The text tests::display expects for TestBody.
TestDisplayed ==
  << Punct("{"),
     Newline, IndentUnit, StrTok("id"), Punct(":"), Space, StrTok("id"),
     Punct(","),
     Newline, IndentUnit, StrTok("type"), Punct(":"), Space,
     StrTok("message"), Punct(","),
     Newline, IndentUnit, StrTok("role"), Punct(":"), Space,
     StrTok("assistant"), Punct(","),
     Newline, IndentUnit, StrTok("content"), Punct(":"), Space,
     StrTok("content"), Punct(","),
     Newline, IndentUnit, StrTok("model"), Punct(":"), Space,
     StrTok("claude-3-sonnet-20240229"), Punct(","),
     Newline, IndentUnit, StrTok("stop_reason"), Punct(":"), Space,
     StrTok("end_turn"), Punct(","),
     Newline, IndentUnit, StrTok("stop_sequence"), Punct(":"), Space,
     StrTok("stop_sequence"), Punct(","),
     Newline, IndentUnit, StrTok("usage"), Punct(":"), Space, Punct("{"),
     Newline, IndentUnit, IndentUnit, StrTok("input_tokens"), Punct(":"),
     Space, NumTok(1), Punct(","),
     Newline, IndentUnit, IndentUnit, StrTok("output_tokens"), Punct(":"),
     Space, NumTok(2),
     Newline, IndentUnit, Punct("}"),
     Newline, Punct("}") >>

(* ------------------------------ properties ---------------------------- *)

Body == "MessagesResponseBody"

ObjectType == "MessageObjectType"

\* The text in hand was written from a value of type ty by call `by`.
WrittenFrom(ty, by) ==
  source # None /\ source[1].ty = ty /\ source[1].by = by

\* The last call was from_str::<ty> on the text in hand.
Decoded(ty) == op = "from_str" /\ result # None /\ result[1].ty = ty

Keys(j) == [i \in 1..Len(j.m) |-> j.m[i].key]

KeySet(j) == {j.m[i].key : i \in 1..Len(j.m)}

HasKey(j, key) == key \in KeySet(j)

Member(j, key) == j.m[Get(j.m, key)].val

\* Semantic equality of JSON values: objects compared by key, whatever the
\* order of their members.
RECURSIVE JsonEq(_, _)
JsonEq(a, b) ==
  IF a.t # b.t THEN FALSE
  ELSE IF a.t = "obj"
  THEN /\ Len(a.m) = Len(b.m)
       /\ KeySet(a) = KeySet(b)
       /\ \A i \in 1..Len(a.m) : \A k \in 1..Len(b.m) :
            a.m[i].key = b.m[k].key => JsonEq(a.m[i].val, b.m[k].val)
  ELSE IF a.t = "arr"
  THEN /\ Len(a.m) = Len(b.m)
       /\ \A i \in 1..Len(a.m) : JsonEq(a.m[i].val, b.m[i].val)
  ELSE a = b

DeclaredKeys ==
  <<"id", "type", "role", "content", "model", "stop_reason",
    "stop_sequence", "usage">>

RequiredKeys == {"id", "type", "role", "content", "model", "usage"}

Reencoded == parse_document(to_string(Body, result[1].v.v)).v

\* C2 as stated: whenever a JSON object decodes into a MessagesResponseBody,
\* encoding the decoded value gives the same keys and the same value under
\* every key, also when stop_reason or stop_sequence is absent and when
\* there are undeclared keys.
C2_Original ==
  (Decoded(Body) /\ result[1].v.ok /\ parse_document(text).v.t = "obj")
    => JsonEq(parse_document(text).v, Reencoded)

\* The object carries exactly the declared keys, once each, and its usage
\* and its content blocks are objects of exactly their declared keys.
ExactlyDeclared(j) ==
  /\ j.t = "obj"
  /\ Len(j.m) = Len(DeclaredKeys)
  /\ KeySet(j) = {DeclaredKeys[i] : i \in 1..Len(DeclaredKeys)}
  /\ LET u == Member(j, "usage")
         c == Member(j, "content")
     IN /\ u.t = "obj"
        /\ Len(u.m) = 2
        /\ KeySet(u) = {"input_tokens", "output_tokens"}
        /\ c.t = "arr" =>
             \A i \in 1..Len(c.m) :
               LET b == c.m[i].val
               IN /\ b.t = "obj"
                  /\ Len(b.m) = 2
                  /\ \/ KeySet(b) = {"type", "text"}
                     \/ /\ KeySet(b) = {"type", "source"}
                        /\ Member(b, "source").t = "obj"
                        /\ Len(Member(b, "source").m) = 3
                        /\ KeySet(Member(b, "source"))
                             = {"type", "media_type", "data"}

\* C2, amended: the same, for the objects that carry exactly the declared
\* keys at every level (both optional keys present, possibly null).
C2_Amended ==
  (Decoded(Body) /\ result[1].v.ok /\ ExactlyDeclared(parse_document(text).v))
    => JsonEq(parse_document(text).v, Reencoded)

\* A received object with exactly the declared keys, in another order than
\* the declaration's and with a null stop_reason, was decoded.
C2_Witness ==
  /\ Decoded(Body)
  /\ source = None
  /\ result[1].v.ok
  /\ ExactlyDeclared(parse_document(text).v)
  /\ Keys(parse_document(text).v) # DeclaredKeys
  /\ Member(parse_document(text).v, "stop_reason") = JNull

\* C3: decoding a MessageObjectType from anything but the JSON string
\* "message", and decoding a MessagesResponseBody from an object whose
\* "type" holds anything else, gives an error value and no value.
C3_TypeRejected ==
  (op = "from_str") =>
    LET p == parse_document(text)
        r == result[1].v
        bad_type == /\ p.ok
                    /\ p.v.t = "obj"
                    /\ \E i \in 1..Len(p.v.m) :
                         /\ p.v.m[i].key = "type"
                         /\ p.v.m[i].val # JStr("message")
    IN /\ (Decoded(ObjectType) /\ ~(p.ok /\ p.v = JStr("message")))
            => (~r.ok /\ r.err # "" /\ r.v = None)
       /\ (Decoded(Body) /\ bad_type)
            => (~r.ok /\ r.err # "" /\ r.v = None)

\* A body whose "type" is the differently-cased string "Message" was
\* decoded, and the decoder named the unknown variant.
C3_Witness ==
  /\ Decoded(Body)
  /\ parse_document(text).ok
  /\ parse_document(text).v.t = "obj"
  /\ HasKey(parse_document(text).v, "type")
  /\ Member(parse_document(text).v, "type") = JStr("Message")
  /\ result[1].v = Err("unknown variant", "Message")

\* C4: to_string writes a MessagesResponseBody as one object of exactly the
\* eight declared keys in declaration order, _type under "type", usage as
\* an object of input_tokens and output_tokens; for the tests' value it is
\* the text tests::serialize expects.
C4_EncodedShape ==
  (op = "to_string" /\ WrittenFrom(Body, "to_string")) =>
    LET p == parse_document(text)
    IN /\ text[1] = Punct("{")
       /\ p.ok
       /\ p.v.t = "obj"
       /\ Keys(p.v) = DeclaredKeys
       /\ Member(p.v, "usage").t = "obj"
       /\ Keys(Member(p.v, "usage")) = <<"input_tokens", "output_tokens">>
       /\ source[1].v = TestBody => text = TestSerialized

\* The tests' value was encoded.
C4_Witness ==
  /\ op = "to_string"
  /\ WrittenFrom(Body, "to_string")
  /\ source[1].v = TestBody
  /\ Len(text) = Len(TestSerialized)

StripWs(toks) == SelectSeq(toks, LAMBDA tok : tok.k # "ws")

\* Brackets open at position i.
Depth(toks, i) ==
  Cardinality({k \in 1..(i - 1) : toks[k] \in {Punct("{"), Punct("[")}})
  - Cardinality({k \in 1..(i - 1) : toks[k] \in {Punct("}"), Punct("]")}})

\* Every key starts a line, indented two spaces per open bracket, and is
\* followed by a colon and one space.
OneKeyPerLine(toks) ==
  \A i \in 1..(Len(toks) - 1) :
    (toks[i].k = "str" /\ toks[i + 1] = Punct(":")) =>
      LET d == Depth(toks, i)
      IN /\ i > d + 1
         /\ toks[i - d - 1] = Newline
         /\ \A k \in (i - d)..(i - 1) : toks[k] = IndentUnit
         /\ toks[i + 2] = Space

C6_TextFormsAgree ==
  /\ (op = "fmt" /\ WrittenFrom(ObjectType, "fmt")) =>
       text = <<RawTok("message")>>
  /\ (op = "to_string" /\ WrittenFrom(ObjectType, "to_string")) =>
       /\ text = <<StrTok(MessageObjectType_fmt(source[1].v))>>
       /\ text = <<StrTok("message")>>
  /\ (Decoded(ObjectType) /\ WrittenFrom(ObjectType, "to_string")) =>
       (result[1].v.ok /\ result[1].v.v = source[1].v)
  /\ (Decoded(ObjectType) /\ text = <<StrTok("message")>>) =>
       (result[1].v.ok /\ result[1].v.v = "Message")

\* The encoding of MessageObjectType::Message was decoded back.
C6_Witness ==
  /\ Decoded(ObjectType)
  /\ WrittenFrom(ObjectType, "to_string")
  /\ result[1].v.ok
  /\ value = Some(Val(ObjectType, "Message"))

\* C7: every MessagesResponseBody in hand, built by hand, by default() or
\* by decoding, has _type = Message (which is also what
\* MessageObjectType::default() gives), and every text written from one
\* has "type": "message".
C7_AlwaysMessage ==
  /\ (value # None /\ value[1].ty = Body) => value[1].v._type = "Message"
  /\ (value # None /\ value[1].ty = ObjectType /\ op = "default") =>
       value[1].v = "Message"
  /\ (Decoded(Body) /\ result[1].v.ok) => result[1].v.v._type = "Message"
  /\ (op \in {"to_string", "fmt"} /\ source[1].ty = Body) =>
       Member(parse_document(text).v, "type") = JStr("message")

\* A received document was decoded into a body.
C7_Witness ==
  /\ Decoded(Body)
  /\ source = None
  /\ result[1].v.ok
  /\ value = Some(Val(Body, result[1].v.v))

\* C9: a text written from a MessagesResponseBody always has the keys
\* stop_reason and stop_sequence, null exactly when the field is None;
\* decoding yields None for either key when it is null and when it is
\* absent, and an absent one is never an error.
C9_OptionalAsymmetry ==
  /\ (op \in {"to_string", "fmt"} /\ source[1].ty = Body) =>
       LET j == parse_document(text).v
       IN \A k \in {"stop_reason", "stop_sequence"} :
            /\ HasKey(j, k)
            /\ (Member(j, k) = JNull) <=> (source[1].v[k] = None)
  /\ Decoded(Body) =>
       LET p == parse_document(text)
           r == result[1].v
       IN \A k \in {"stop_reason", "stop_sequence"} :
            /\ (r.err = "missing field") => r.at # k
            /\ (r.ok /\ p.v.t = "obj" /\ ~HasKey(p.v, k)) => r.v[k] = None
            /\ (r.ok /\ p.v.t = "obj" /\ HasKey(p.v, k)
                  /\ Member(p.v, k) = JNull) => r.v[k] = None

\* A received object without the key stop_reason was decoded into a body
\* whose stop_reason is None and whose stop_sequence is Some.
C9_Witness ==
  /\ Decoded(Body)
  /\ source = None
  /\ parse_document(text).v.t = "obj"
  /\ ~HasKey(parse_document(text).v, "stop_reason")
  /\ result[1].v.ok
  /\ result[1].v.v.stop_reason = None
  /\ result[1].v.v.stop_sequence # None

\* The value under a required key has a shape its field cannot take.
WrongShape(j, key) ==
  /\ HasKey(j, key)
  /\ LET x == Member(j, key)
     IN CASE key \in {"id", "role", "model"} -> x.t # "str"
          [] key = "type" -> x # JStr("message")
          [] key = "content" -> x.t \notin {"str", "arr"}
          [] key = "usage" -> x.t \notin {"obj", "arr"}

\* C10: decoding a MessagesResponseBody from an object that lacks a
\* required key, or holds a value of the wrong shape under one, gives an
\* error and no value: no default stands in for the missing key.
C10_RequiredKeys ==
  Decoded(Body) =>
    LET p == parse_document(text)
        r == result[1].v
    IN (p.ok /\ p.v.t = "obj") =>
         \A k \in RequiredKeys :
           /\ ~HasKey(p.v, k) =>
                (~r.ok /\ r.v = None /\ (source = None => value = None))
           /\ WrongShape(p.v, k) =>
                (~r.ok /\ r.v = None /\ (source = None => value = None))

\* A received object without the key id was decoded: the error names the
\* missing field.
C10_Witness ==
  /\ Decoded(Body)
  /\ source = None
  /\ parse_document(text).ok
  /\ parse_document(text).v.t = "obj"
  /\ ~HasKey(parse_document(text).v, "id")
  /\ result[1].v = Err("missing field", "id")
  /\ value = None
====
